---- MODULE Spec2Model ----
(***************************************************************************)
(* Model of the photo-capture / design-comparison front end.               *)
(*                                                                         *)
(*   "/"         CameraCapture  (camera lifecycle, freeze, file upload)    *)
(*   "/preview"  PreviewPage    (session read, category toggles, Generate) *)
(*   "/compare"  ComparePage    (initial pair, choice and regeneration)    *)
(*   services/design            (generateDesigns, blobToDataURL)           *)
(*                                                                         *)
(* Every state of the model is a committed render of the mounted page;     *)
(* every action is one event handler, effect or promise continuation run   *)
(* to its next await.                                                      *)
(***************************************************************************)
EXTENDS Integers, Sequences, FiniteSets, TLC

\* ------------------------------------------------------------------ bounds
MaxStreams == 2      \* getUserMedia calls that are pending or were granted
MaxReads   == 1      \* FileReader reads in flight on the capture screen
MaxTimers  == 1      \* toast timeouts pending
MaxRegen   == 2      \* single-slot regenerations in flight

\* --------------------------------------------------------------- constants
maxDim        == 1920
fallbackWidth == 1280
fallbackHeight == 720

\* ------------------------------------------------------------ value domains
Null    == [null |-> TRUE]
NoError == ""
NoDesigns == << >>     \* designs = null
NoCompareError == << >> \* error = null on ComparePage (messages are tuples of parts)

ErrUnsupported == "Camera API not supported by this browser."
ErrInsecure    == "Camera requires HTTPS (or localhost). Open this page over HTTPS."
ErrCamera      == "Could not access the camera."
ErrSave        == "Failed to save the photo. Please try again."

\* Sizes a camera track or the video element may report.
FrameSizes == { <<3000, 2000>>, <<1280, 720>>, <<2304, 3>> }

\* Byte contents: an encoded picture of w x h pixels; w = 0 is the empty content.
Bytes(w, h, tag) == [w |-> w, h |-> h, tag |-> tag]
EmptyBytes == Bytes(0, 0, "")

\* A payload that is not base64 text; FileReader and canvas never produce one.
NotBase64 == Bytes(0, 0, "%%")

\* atob(payload) returns (TRUE) or throws InvalidCharacterError (FALSE).
atobOk(payload) == payload # NotBase64

\* Files the user can pick (accept="image/*" is only a hint to the picker).
Files == { [name |-> "room.jpg",  type |-> "image/jpeg",      bytes |-> Bytes(3000, 2000, "room")],
           [name |-> "notes.pdf", type |-> "application/pdf", bytes |-> Bytes(1, 1, "pdf")],
           [name |-> "empty.png", type |-> "image/png",       bytes |-> EmptyBytes] }

\* A data URL "data:<mime>;base64,<payload>".
DataURL(mime, b64, payload) == [mime |-> mime, b64 |-> b64, payload |-> payload]

\* FileReader.readAsDataURL: the blob's type and the base64 of its bytes.
readAsDataURL(b) == DataURL(b.type, TRUE, b.bytes)

\* canvas.toDataURL('image/jpeg', 0.92) of a canvas of outW x outH.
toDataURL(outW, outH) == DataURL("image/jpeg", TRUE, Bytes(outW, outH, "frame"))

\* String.startsWith('data:image/')
IsImageMime(m) == m \in {"image/jpeg", "image/png"}
StartsWithDataImage(u) == u # Null /\ IsImageMime(u.mime)

Max(a, b) == IF a >= b THEN a ELSE b

\* Math.round(n / d) for n >= 0, d > 0.  The quotient is computed in floating
\* point as n * (maxDim / max); away from an exact tie the nearest integer is
\* determined, at an exact tie the last bit decides and either neighbour can
\* come out (tieUp).
MathRound(n, d, tieUp) ==
  IF 2 * (n % d) = d THEN (n \div d) + (IF tieUp THEN 1 ELSE 0)
  ELSE (2 * n + d) \div (2 * d)

\* capture(): the canvas size for a frame of w x h.
OutSize(w, h, tieUp) ==
  IF Max(w, h) > maxDim
    THEN << MathRound(w * maxDim, Max(w, h), tieUp), MathRound(h * maxDim, Max(w, h), tieUp) >>
    ELSE << w, h >>

\* ------------------------------------------------------------------- state
VARIABLES
  route,            \* the mounted page: "/", "/preview", "/compare"
  query,            \* the categories query parameter of the URL (<< >> when absent)
  nav,              \* navigation requested by the router and not yet committed
  storage,          \* sessionStorage: key -> data URL or Null
  obtained,         \* key -> how many getItem calls returned the value last stored (2 = more than one)
  \* --- CameraCapture
  supportsGetUserMedia, isSecure,
  stream,           \* 0 = null, otherwise the id of the MediaStream in state
  blob, busy, error, frozenFrame, showToast,
  toastTimers,      \* setTimeout callbacks pending
  gumPending,       \* startCamera calls awaiting getUserMedia
  playPending,      \* startCamera calls awaiting video.play()
  gumOrphan,        \* getUserMedia calls of an unmounted instance still pending
  pickerOpen,       \* the file chooser of the hidden <input type=file> is open
  reads,            \* files being read by a FileReader (onFileChange)
  acquired,         \* number of MediaStreams granted so far (ids 1..acquired)
  live,             \* ids of granted streams whose tracks were never stopped
  \* --- PreviewPage
  imageUrl,
  selectedCategories,   \* Set<string>, kept in insertion order
  \* --- PreviewPage and ComparePage (one of them is mounted at a time)
  isMounted,
  readOutcome,      \* what the session-storage effect of the mounted page found
  \* --- ComparePage
  originalPhoto, isLoading, loadingDesignIndex, designs, compareCategories, compareError,
  effectPending,    \* the [originalPhoto] effect has to run after this render
  run,              \* the generateInitialDesigns call in progress
  runIssued,        \* generation requests sent by the latest generateInitialDesigns call
  regens,           \* handleDesignChoice calls in progress
  lastEvent,        \* the handler that produced the current state
  \* --- services/design and the upload route, called on their own
  svc,              \* the call of generateDesigns / getRandomTile in progress
  server            \* the request POST /api/upload is handling

navVars     == << route, query, nav, storage, obtained >>
captureVars == << supportsGetUserMedia, isSecure, stream, blob, busy, error, frozenFrame,
                  showToast, toastTimers, gumPending, playPending, gumOrphan, pickerOpen,
                  reads, acquired, live >>
previewVars == << imageUrl, selectedCategories >>
pageVars    == << isMounted, readOutcome >>
compareVars == << originalPhoto, isLoading, loadingDesignIndex, designs, compareCategories,
                  compareError, effectPending, run, runIssued, regens >>
appVars == << navVars, captureVars, previewVars, pageVars, compareVars, lastEvent >>
serviceVars == << svc, server >>
vars == << appVars, serviceVars >>
otherPages == << previewVars, pageVars, compareVars >>

NoNav == [to |-> "", query |-> << >>]

\* lastEvent: the name of the handler and, for a freeze, the size of its
\* input; for a step of generateInitialDesigns, what called it ("effect" or
\* "retry") and, when the pair is set, which of its two requests settled
\* first; for a regeneration that set a slot, the slot when a call for it
\* that was started earlier is still in progress (overtook, else -1), and
\* whether the step before was a call started later setting the same slot
\* (late).
Ev(name) ==
  [name |-> name, w |-> 0, h |-> 0, trigger |-> "", first |-> 0, overtook |-> -1, late |-> FALSE]
EvSized(name, w, h) == [Ev(name) EXCEPT !.w = w, !.h = h]
EvRun(name, trigger) == [Ev(name) EXCEPT !.trigger = trigger]
EvRunDone(name, trigger, first) == [Ev(name) EXCEPT !.trigger = trigger, !.first = first]
EvRegen(name, overtook, late) == [Ev(name) EXCEPT !.overtook = overtook, !.late = late]

\* useState<MediaStream | null>(null): the stream state of the first render.
firstRenderStream == 0

\* The capture component as first rendered (stream apart).
CaptureFresh ==
  /\ blob' = Null /\ busy' = FALSE /\ error' = NoError
  /\ frozenFrame' = Null /\ showToast' = FALSE /\ toastTimers' = 0
  /\ gumPending' = 0 /\ playPending' = 0 /\ pickerOpen' = FALSE /\ reads' = << >>

OnCapture == route = "/"

\* videoRef.current / canvasRef.current: the <video> is rendered only while
\* there is no frozen frame, the <canvas> and the <input> always.
videoMounted == OnCapture /\ frozenFrame = Null

\* ---------------------------------------------------------- CameraCapture
\* startCamera() up to its first await.  The caller supplies frozenFrame/blob.
startCamera ==
  IF ~supportsGetUserMedia THEN
    /\ error' = ErrUnsupported
    /\ pickerOpen' = TRUE
    /\ lastEvent' = Ev("startUnsupported")
    /\ UNCHANGED << busy, gumPending >>
  ELSE IF ~isSecure THEN
    /\ error' = ErrInsecure
    /\ lastEvent' = Ev("startInsecure")
    /\ UNCHANGED << pickerOpen, busy, gumPending >>
  ELSE
    /\ acquired + gumPending + gumOrphan < MaxStreams
    /\ busy' = TRUE
    /\ error' = NoError
    /\ gumPending' = gumPending + 1
    /\ lastEvent' = Ev("startRequested")
    /\ UNCHANGED pickerOpen

\* "Take a Photo" button: shown when !stream && !frozenFrame, disabled while busy.
StartCameraClick ==
  /\ OnCapture /\ stream = 0 /\ frozenFrame = Null /\ ~busy
  /\ startCamera
  /\ UNCHANGED << otherPages, navVars, supportsGetUserMedia, isSecure, stream, blob, frozenFrame,
                  showToast, toastTimers, playPending, gumOrphan, reads, acquired, live >>
  /\ UNCHANGED serviceVars

\* getUserMedia resolves for a mounted instance: setStream(s), then either
\* await video.play() (video rendered) or straight on to setFrozenFrame(null)
\* and the finally block.
GetUserMediaResolve ==
  /\ OnCapture /\ gumPending > 0
  /\ gumPending' = gumPending - 1
  /\ acquired' = acquired + 1
  /\ live' = live \cup {acquired + 1}
  /\ stream' = acquired + 1
  /\ IF videoMounted
       THEN /\ playPending' = playPending + 1
            /\ UNCHANGED << frozenFrame, busy >>
       ELSE /\ frozenFrame' = Null
            /\ busy' = FALSE
            /\ UNCHANGED playPending
  /\ lastEvent' = Ev("streamGranted")
  /\ UNCHANGED << otherPages, navVars, supportsGetUserMedia, isSecure, blob, error, showToast,
                  toastTimers, gumOrphan, pickerOpen, reads >>
  /\ UNCHANGED serviceVars

\* video.play() settles (a rejection is swallowed): setFrozenFrame(null), finally.
PlaySettled ==
  /\ OnCapture /\ playPending > 0
  /\ playPending' = playPending - 1
  /\ frozenFrame' = Null
  /\ busy' = FALSE
  /\ lastEvent' = Ev("playSettled")
  /\ UNCHANGED << otherPages, navVars, supportsGetUserMedia, isSecure, stream, blob, error, showToast,
                  toastTimers, gumPending, gumOrphan, pickerOpen, reads, acquired, live >>
  /\ UNCHANGED serviceVars

\* getUserMedia rejects (permission denied, no device): catch and finally.
GetUserMediaReject ==
  /\ OnCapture /\ gumPending > 0
  /\ gumPending' = gumPending - 1
  /\ error' = ErrCamera
  /\ pickerOpen' = TRUE
  /\ busy' = FALSE
  /\ lastEvent' = Ev("gumRejected")
  /\ UNCHANGED << otherPages, navVars, supportsGetUserMedia, isSecure, stream, blob, frozenFrame,
                  showToast, toastTimers, playPending, gumOrphan, reads, acquired, live >>
  /\ UNCHANGED serviceVars

\* A getUserMedia call of an instance that was unmounted meanwhile settles:
\* a granted stream is referenced by nobody, every setState is a no-op.
OrphanGetUserMediaSettle ==
  /\ gumOrphan > 0
  /\ gumOrphan' = gumOrphan - 1
  /\ \E granted \in BOOLEAN :
       IF granted
         THEN /\ acquired' = acquired + 1
              /\ live' = live \cup {acquired + 1}
         ELSE UNCHANGED << acquired, live >>
  /\ lastEvent' = Ev("orphanSettled")
  /\ UNCHANGED << otherPages, navVars, supportsGetUserMedia, isSecure, stream, blob, busy, error,
                  frozenFrame, showToast, toastTimers, gumPending, playPending,
                  pickerOpen, reads >>
  /\ UNCHANGED serviceVars

\* stopCamera() as closed over a render whose stream state was s:
\* s?.getTracks().forEach(t => t.stop()); setStream(null).
stopCamera(s) ==
  /\ live' = live \ {s}
  /\ stream' = 0

\* capture(): "Capture" button, shown while there is no frozen frame and
\* enabled when stream && !busy.  settingsKnown: the track reports its size;
\* otherwise the video element's intrinsic size is used, and 1280x720 when
\* that is 0 (no frame decoded yet).
capture(size, settingsKnown, videoKnown, tieUp) ==
  LET w == IF settingsKnown \/ videoKnown THEN size[1] ELSE fallbackWidth
      h == IF settingsKnown \/ videoKnown THEN size[2] ELSE fallbackHeight
      out == OutSize(w, h, tieUp)
  IN  /\ frozenFrame' = toDataURL(out[1], out[2])
      /\ lastEvent' = EvSized("captured", w, h)
      /\ stopCamera(stream)
      /\ showToast' = TRUE
      /\ toastTimers' = toastTimers + 1

CaptureClick ==
  /\ OnCapture /\ frozenFrame = Null /\ stream # 0 /\ ~busy
  /\ toastTimers < MaxTimers
  /\ \E size \in FrameSizes, settingsKnown \in BOOLEAN, videoKnown \in BOOLEAN, tieUp \in BOOLEAN :
       capture(size, settingsKnown, videoKnown, tieUp)
  /\ UNCHANGED << otherPages, navVars, supportsGetUserMedia, isSecure, blob, busy, error, gumPending,
                  playPending, gumOrphan, pickerOpen, reads, acquired >>
  /\ UNCHANGED serviceVars

\* handleRetry(): "Retry" button, shown while there is a frozen frame.
handleRetry ==
  /\ OnCapture /\ frozenFrame # Null
  /\ blob' = Null
  /\ frozenFrame' = Null
  /\ startCamera
  /\ UNCHANGED << otherPages, navVars, supportsGetUserMedia, isSecure, stream, showToast, toastTimers,
                  playPending, gumOrphan, reads, acquired, live >>
  /\ UNCHANGED serviceVars

\* "Upload an Image" button: shown when !stream && !frozenFrame.
UploadClick ==
  /\ OnCapture /\ stream = 0 /\ frozenFrame = Null
  /\ ~pickerOpen
  /\ pickerOpen' = TRUE
  /\ lastEvent' = Ev("pickerOpened")
  /\ UNCHANGED << otherPages, navVars, supportsGetUserMedia, isSecure, stream, blob, busy, error,
                  frozenFrame, showToast, toastTimers, gumPending, playPending, gumOrphan,
                  reads, acquired, live >>
  /\ UNCHANGED serviceVars

\* The user dismisses the file chooser: no change event.
PickerCancel ==
  /\ OnCapture /\ pickerOpen
  /\ pickerOpen' = FALSE
  /\ lastEvent' = Ev("pickerCancelled")
  /\ UNCHANGED << otherPages, navVars, supportsGetUserMedia, isSecure, stream, blob, busy, error,
                  frozenFrame, showToast, toastTimers, gumPending, playPending, gumOrphan,
                  reads, acquired, live >>
  /\ UNCHANGED serviceVars

\* onFileChange(e): setBlob(file) and start reading it.
onFileChange(file) ==
  /\ OnCapture /\ pickerOpen
  /\ Len(reads) < MaxReads
  /\ pickerOpen' = FALSE
  /\ blob' = file
  /\ reads' = Append(reads, file)
  /\ lastEvent' = Ev("fileChosen")
  /\ UNCHANGED << otherPages, navVars, supportsGetUserMedia, isSecure, stream, busy, error, frozenFrame,
                  showToast, toastTimers, gumPending, playPending, gumOrphan, acquired, live >>
  /\ UNCHANGED serviceVars

\* reader.onload of onFileChange: setFrozenFrame(dataUrl), toast.
ReaderOnload(i) ==
  /\ OnCapture /\ i \in 1..Len(reads)
  /\ toastTimers < MaxTimers
  /\ frozenFrame' = readAsDataURL(reads[i])
  /\ reads' = SubSeq(reads, 1, i - 1) \o SubSeq(reads, i + 1, Len(reads))
  /\ showToast' = TRUE
  /\ toastTimers' = toastTimers + 1
  /\ lastEvent' = EvSized("uploaded", reads[i].bytes.w, reads[i].bytes.h)
  /\ UNCHANGED << otherPages, navVars, supportsGetUserMedia, isSecure, stream, blob, busy, error,
                  gumPending, playPending, gumOrphan, pickerOpen, acquired, live >>
  /\ UNCHANGED serviceVars

\* setTimeout(() => setShowToast(false), 2000)
ToastTimeout ==
  /\ OnCapture /\ toastTimers > 0
  /\ toastTimers' = toastTimers - 1
  /\ showToast' = FALSE
  /\ lastEvent' = Ev("toastTimeout")
  /\ UNCHANGED << otherPages, navVars, supportsGetUserMedia, isSecure, stream, blob, busy, error,
                  frozenFrame, gumPending, playPending, gumOrphan, pickerOpen, reads,
                  acquired, live >>
  /\ UNCHANGED serviceVars

\* The cleanup of useEffect(() => { return () => stopCamera(); }, []).  The
\* effect ran once, after the first render, so the stopCamera it returns is
\* the one of the first render, closed over stream = null; setStream on an
\* unmounted component does nothing.
CaptureCleanup ==
  /\ stopCamera(firstRenderStream)
  /\ gumOrphan' = gumOrphan + gumPending
  /\ CaptureFresh
  /\ UNCHANGED << supportsGetUserMedia, isSecure, acquired >>

\* ---------------------------------------------------------- sessionStorage
Min(a, b) == IF a <= b THEN a ELSE b

\* sessionStorage.setItem(key, value)
setItem(key, value) ==
  /\ storage' = [storage EXCEPT ![key] = value]
  /\ obtained' = [obtained EXCEPT ![key] = 0]

\* sessionStorage.getItem(key) returned the stored value ...
getItem(key) == obtained' = [obtained EXCEPT ![key] = Min(@ + 1, 2)]

\* Variant of getThenRemoveItem: the value is read and the key is left in place.
getItemKeepsKey(key) ==
  /\ getItem(key)
  /\ UNCHANGED storage

\* ... and sessionStorage.removeItem(key) follows in the same handler.
getThenRemoveItem(key) ==
  /\ getItem(key)
  /\ storage' = [storage EXCEPT ![key] = Null]

\* ------------------------------------------------------------- navigation
\* The preview and compare components as first rendered.
PagesFresh ==
  /\ imageUrl' = Null /\ selectedCategories' = << >>
  /\ isMounted' = FALSE /\ readOutcome' = "none"
  /\ originalPhoto' = Null /\ isLoading' = FALSE /\ loadingDesignIndex' = -1
  /\ designs' = NoDesigns /\ compareCategories' = << >> /\ compareError' = NoCompareError
  /\ effectPending' = FALSE /\ run' = Null /\ runIssued' = 0 /\ regens' = << >>

\* The transition to the page `to`: the current page is unmounted (its
\* cleanups run, state updates of its pending continuations become no-ops)
\* and the target page is rendered for the first time.
transition(to, q) ==
  /\ route' = to /\ query' = q /\ nav' = NoNav
  /\ IF route = "/"
       THEN CaptureCleanup /\ lastEvent' = Ev("captureUnmounted")
       ELSE UNCHANGED captureVars /\ lastEvent' = Ev("navigated")
  /\ PagesFresh
  /\ UNCHANGED << storage, obtained >>
  /\ UNCHANGED serviceVars

\* The router commits the navigation requested by router.push / replace.
CommitNav ==
  /\ nav # NoNav
  /\ transition(nav.to, nav.query)

\* Variant of handleNext: router.push('/preview') is called before, and
\* whatever the outcome of, sessionStorage.setItem.
handleNextPushesFirst(setItemOk) ==
  /\ OnCapture /\ frozenFrame # Null
  /\ nav' = [to |-> "/preview", query |-> << >>]
  /\ IF setItemOk
       THEN /\ setItem("capturedPhoto", frozenFrame)
            /\ lastEvent' = Ev("nextStored")
            /\ UNCHANGED error
       ELSE /\ error' = ErrSave
            /\ lastEvent' = Ev("nextFailed")
            /\ UNCHANGED << storage, obtained >>
  /\ UNCHANGED << otherPages, route, query, supportsGetUserMedia, isSecure, stream, blob, busy,
                  frozenFrame, showToast, toastTimers, gumPending, playPending, gumOrphan,
                  pickerOpen, reads, acquired, live >>
  /\ UNCHANGED serviceVars

\* handleNext(): "Next" button, shown while there is a frozen frame.
\* setItemOk = FALSE: sessionStorage.setItem throws (quota, storage disabled).
handleNext(setItemOk) ==
  /\ OnCapture /\ frozenFrame # Null
  /\ IF setItemOk
       THEN /\ setItem("capturedPhoto", frozenFrame)
            /\ nav' = [to |-> "/preview", query |-> << >>]
            /\ lastEvent' = Ev("nextStored")
            /\ UNCHANGED error
       ELSE /\ error' = ErrSave
            /\ lastEvent' = Ev("nextFailed")
            /\ UNCHANGED << storage, obtained, nav >>
  /\ UNCHANGED << otherPages, route, query, supportsGetUserMedia, isSecure, stream, blob, busy,
                  frozenFrame, showToast, toastTimers, gumPending, playPending, gumOrphan,
                  pickerOpen, reads, acquired, live >>
  /\ UNCHANGED serviceVars

HandleNextClick == \E setItemOk \in BOOLEAN : handleNext(setItemOk)

\* ------------------------------------------------------------- PreviewPage
designCategories == << "floor", "walls", "furniture", "lighting", "decor" >>
CategoryIds == { designCategories[i] : i \in 1..Len(designCategories) }

OnPreview == route = "/preview"

SeqHas(s, x) == \E i \in 1..Len(s) : s[i] = x
SeqWithout(s, x) == SelectSeq(s, LAMBDA y : y # x)

\* A string is the sequence of its characters; these are the ids of
\* designCategories spelled out.
chars(id) ==
  CASE id = "floor"     -> << "f", "l", "o", "o", "r" >>
    [] id = "walls"     -> << "w", "a", "l", "l", "s" >>
    [] id = "furniture" -> << "f", "u", "r", "n", "i", "t", "u", "r", "e" >>
    [] id = "lighting"  -> << "l", "i", "g", "h", "t", "i", "n", "g" >>
    [] id = "decor"     -> << "d", "e", "c", "o", "r" >>

\* Array.prototype.join(','): the elements with a "," between neighbours.
RECURSIVE join(_)
join(s) ==
  IF Len(s) = 0 THEN << >>
  ELSE IF Len(s) = 1 THEN chars(s[1])
  ELSE chars(s[1]) \o << "," >> \o join(Tail(s))

\* encodeURIComponent: a "," becomes the escape %2C, the letters of an id
\* are kept.
RECURSIVE encodeURIComponent(_)
encodeURIComponent(str) ==
  IF Len(str) = 0 THEN << >>
  ELSE (IF str[1] = "," THEN << "%", "2", "C" >> ELSE << str[1] >>)
         \o encodeURIComponent(Tail(str))

\* Variant of searchParamsGet: the value as written in the URL.
searchParamsGetRaw(q) == q

\* URLSearchParams.get: the value with its percent escapes decoded.
RECURSIVE searchParamsGet(_)
searchParamsGet(q) ==
  IF Len(q) = 0 THEN << >>
  ELSE IF Len(q) >= 3 /\ q[1] = "%" /\ q[2] = "2" /\ q[3] = "C"
    THEN << "," >> \o searchParamsGet(SubSeq(q, 4, Len(q)))
  ELSE << q[1] >> \o searchParamsGet(Tail(q))

\* String.prototype.split(','): the pieces between the commas.
RECURSIVE splitFrom(_, _, _)
splitFrom(str, i, piece) ==
  IF i > Len(str) THEN << piece >>
  ELSE IF str[i] = "," THEN << piece >> \o splitFrom(str, i + 1, << >>)
  ELSE splitFrom(str, i + 1, Append(piece, str[i]))
split(str) == splitFrom(str, 1, << >>)

\* useEffect(() => setIsMounted(true), []) of PreviewPage and of ComparePage.
MountEffect ==
  /\ route \in {"/preview", "/compare"} /\ ~isMounted
  /\ isMounted' = TRUE
  /\ lastEvent' = Ev("mounted")
  /\ UNCHANGED << navVars, captureVars, previewVars, compareVars, readOutcome >>
  /\ UNCHANGED serviceVars

\* Variant of PreviewReadEffect: a missing photo is not answered by a redirect.
PreviewReadEffectStays ==
  /\ OnPreview /\ isMounted /\ readOutcome = "none"
  /\ \E storageOk \in BOOLEAN :
       IF storageOk /\ storage.capturedPhoto # Null THEN
         /\ imageUrl' = storage.capturedPhoto
         /\ getThenRemoveItem("capturedPhoto")
         /\ readOutcome' = "got"
       ELSE
         /\ readOutcome' = IF storageOk THEN "absent" ELSE "threw"
         /\ UNCHANGED << imageUrl, storage, obtained >>
  /\ lastEvent' = Ev("previewRead")
  /\ UNCHANGED << route, query, nav, captureVars, selectedCategories, isMounted, compareVars >>
  /\ UNCHANGED serviceVars

\* The [isMounted, router] effect of PreviewPage, run with isMounted = true.
\* storageOk = FALSE: touching sessionStorage throws.
PreviewReadEffect ==
  /\ OnPreview /\ isMounted /\ readOutcome = "none"
  /\ \E storageOk \in BOOLEAN :
       IF ~storageOk THEN
         /\ nav' = [to |-> "/", query |-> << >>]
         /\ readOutcome' = "threw"
         /\ UNCHANGED << imageUrl, storage, obtained >>
       ELSE IF storage.capturedPhoto # Null THEN
         /\ imageUrl' = storage.capturedPhoto
         /\ getThenRemoveItem("capturedPhoto")
         /\ readOutcome' = "got"
         /\ UNCHANGED nav
       ELSE
         /\ nav' = [to |-> "/", query |-> << >>]
         /\ readOutcome' = "absent"
         /\ UNCHANGED << imageUrl, storage, obtained >>
  /\ lastEvent' = Ev("previewRead")
  /\ UNCHANGED << route, query, captureVars, selectedCategories, isMounted, compareVars >>
  /\ UNCHANGED serviceVars

\* Variant of newSet: the id is added whether or not it is there already.
newSetAlwaysAdds(prev, categoryId) == Append(prev, categoryId)

\* The updater toggleCategory passes to setSelectedCategories: a copy of prev
\* from which categoryId is deleted when present, to which it is added (last
\* in iteration order) when absent.
newSet(prev, categoryId) ==
  IF SeqHas(prev, categoryId) THEN SeqWithout(prev, categoryId)
                              ELSE Append(prev, categoryId)

\* toggleCategory(categoryId): the category buttons exist once imageUrl is set.
toggleCategory(categoryId) ==
  /\ OnPreview /\ imageUrl # Null
  /\ selectedCategories' = newSet(selectedCategories, categoryId)
  /\ lastEvent' = Ev("toggled")
  /\ UNCHANGED << navVars, captureVars, imageUrl, pageVars, compareVars >>
  /\ UNCHANGED serviceVars

ToggleClick == \E c \in CategoryIds : toggleCategory(c)

\* Variant of ValidImageUrl: only the prefix is tested.
ValidImageUrlPrefixOnly(u) == StartsWithDataImage(u)

\* The checks of handleGenerateDesign on the data URL: the image prefix, then
\* header.includes(';base64') and a non-empty payload, then atob(payload).
ValidImageUrl(u) ==
  /\ StartsWithDataImage(u)
  /\ u.b64 /\ u.payload # EmptyBytes
  /\ atobOk(u.payload)

\* Variant of GenerateButton: the button is rendered whatever the selection.
GenerateButtonAlways == OnPreview /\ imageUrl # Null

\* {selectedCategories.size > 0 && <button onClick={handleGenerateDesign}>}
\* inside the imageUrl branch of the render: the "Generate Design" button exists.
GenerateButton == OnPreview /\ imageUrl # Null /\ Len(selectedCategories) > 0

\* handleGenerateDesign(): the click handler of the "Generate Design" button.
handleGenerateDesign(setItemOk) ==
  /\ GenerateButton
  /\ IF ValidImageUrl(imageUrl) /\ setItemOk
       THEN /\ setItem("designPhoto", imageUrl)
            /\ nav' = [to |-> "/compare",
                       query |-> encodeURIComponent(join(selectedCategories))]
            /\ lastEvent' = Ev("generateStored")
       ELSE /\ lastEvent' = Ev("generateAborted")
            /\ UNCHANGED << storage, obtained, nav >>
  /\ UNCHANGED << route, query, captureVars, previewVars, pageVars, compareVars >>
  /\ UNCHANGED serviceVars

GenerateClick == \E setItemOk \in BOOLEAN : handleGenerateDesign(setItemOk)

\* "Take New Photo" in the header: router.push('/').
TakeNewPhoto ==
  /\ OnPreview
  /\ nav' = [to |-> "/", query |-> << >>]
  /\ lastEvent' = Ev("takeNewPhoto")
  /\ UNCHANGED << route, query, storage, obtained, captureVars, previewVars, pageVars, compareVars >>
  /\ UNCHANGED serviceVars

\* --------------------------------------------------------- services/design
\* dataURLtoFile(dataUrl, filename) returns a File unless the URL has no
\* payload after the comma, is not base64 encoded, or atob rejects the payload.
dataURLtoFileOk(u) == u.b64 /\ u.payload # EmptyBytes /\ atobOk(u.payload)
dataURLtoFile(u, filename) == [name |-> filename, type |-> u.mime, bytes |-> u.payload]

\* error.message of the Error dataURLtoFile throws, by the order of its checks.
ErrDecode == << "Failed to decode image data" >>
dataURLtoFileError(u) ==
  IF u.payload = EmptyBytes THEN << "Invalid data URL format: missing header or data" >>
  ELSE IF ~u.b64 THEN << "Data URL is not base64 encoded" >>
  ELSE ErrDecode

\* formData.append('files', file)
append(formData, name, value) == Append(formData, [name |-> name, value |-> value])

\* Variant of generateDesignsRequest: the tile is left out of the request.
generateDesignsRequestNoTile(originalImage, tileImage) ==
  [ method   |-> "POST",
    endpoint |-> "generate-random",
    formData |-> append(<< >>, "files", dataURLtoFile(originalImage, "original.jpg")) ]

\* The request generateDesigns(originalImage, tileImage) passes to fetch.
generateDesignsRequest(originalImage, tileImage) ==
  LET withOriginal == append(<< >>, "files", dataURLtoFile(originalImage, "original.jpg"))
  IN  [ method   |-> "POST",
        endpoint |-> IF tileImage # Null THEN "generate" ELSE "generate-random",
        formData |-> IF tileImage # Null
                       THEN append(withOriginal, "files", dataURLtoFile(tileImage, "tile.jpg"))
                       ELSE withOriginal ]

\* The request getRandomTile() passes to fetch.
getRandomTileRequest == [ method |-> "GET", endpoint |-> "tiles", formData |-> << >> ]

\* What the generation service can answer.
GenBlobs == { [type |-> "image/png", bytes |-> Bytes(1024, 768, "A")],
              [type |-> "image/png", bytes |-> Bytes(1024, 768, "B")] }
Outcomes == { "ok", "http", "network" }
HttpFailure == [status |-> 500, text |-> "model unavailable"]

\* error.message of `${prefix} ${response.status} ${errorText}`.
httpError(prefix, response) == << prefix, response.status, response.text >>

\* error.message of the Error generateDesigns throws for a response.
generateDesignsError(outcome) ==
  IF outcome = "http"
    THEN httpError("Failed to generate design:", HttpFailure)
  ELSE << "Failed to fetch" >>

\* blobToDataURL(blob) resolves with reader.result.
blobToDataURL(b) == readAsDataURL(b)

\* ------------------------------------- services/design, called on its own
\* A call of generateDesigns or getRandomTile: its arguments, the requests it
\* passed to fetch, the response fetch resolved with (Null: none yet, or
\* fetch rejected), and how it ended.
SvcIdle ==
  [ fn |-> "none", phase |-> "idle", originalImage |-> Null, tileImage |-> Null,
    sent |-> << >>, response |-> Null, result |-> Null, message |-> << >> ]

\* Arguments a caller can pass: any data URL string, the tile optional.
ServiceImages ==
  { readAsDataURL(f) : f \in Files } \cup
  { DataURL("image/jpeg", FALSE, Bytes(640, 480, "text")), DataURL("image/png", TRUE, NotBase64) }
ServiceTiles ==
  { Null, DataURL("image/png", TRUE, Bytes(256, 256, "tile")), DataURL("image/png", TRUE, EmptyBytes) }

\* Responses of the generation service: the status line and the body, as
\* response.text() and as response.blob() give it.
ErrorBody(text) == [type |-> "text/plain", bytes |-> Bytes(0, 0, text)]
Responses ==
  { [status |-> 200, text |-> "", blob |-> b] : b \in GenBlobs } \cup
  { [status |-> 204, text |-> "", blob |-> [type |-> "", bytes |-> EmptyBytes]],
    [status |-> 500, text |-> "model unavailable", blob |-> ErrorBody("model unavailable")],
    [status |-> 404, text |-> "Not Found", blob |-> ErrorBody("Not Found")],
    [status |-> 422, text |-> "", blob |-> [type |-> "", bytes |-> EmptyBytes]] }

\* Variant of responseOk: the status is not looked at.
responseOkAlways(response) == TRUE

\* response.ok: the status is in the range 200-299.
responseOk(response) == response.status >= 200 /\ response.status <= 299

svcThrew(message) ==
  svc' = [svc EXCEPT !.phase = "threw", !.message = message]

\* generateDesigns(originalImage, tileImage) up to its await of fetch; a
\* dataURLtoFile that throws ends the call before anything is sent.
generateDesignsCall ==
  /\ svc.phase \in { "idle", "returned", "threw" }
  /\ \E originalImage \in ServiceImages, tileImage \in ServiceTiles :
       LET call == [SvcIdle EXCEPT !.fn = "generateDesigns",
                                   !.originalImage = originalImage, !.tileImage = tileImage]
       IN  IF ~dataURLtoFileOk(originalImage) THEN
             svc' = [call EXCEPT !.phase = "threw", !.message = dataURLtoFileError(originalImage)]
           ELSE IF tileImage # Null /\ ~dataURLtoFileOk(tileImage) THEN
             svc' = [call EXCEPT !.phase = "threw", !.message = dataURLtoFileError(tileImage)]
           ELSE
             svc' = [call EXCEPT !.phase = "fetch",
                                 !.sent = << generateDesignsRequest(originalImage, tileImage) >>]
  /\ UNCHANGED << appVars, server >>

\* fetch of generateDesigns settles: it rejects, or resolves with a response
\* that is either turned into an Error or read as a blob.
generateDesignsSettle ==
  /\ svc.fn = "generateDesigns" /\ svc.phase = "fetch"
  /\ \/ svcThrew(<< "Failed to fetch" >>)
     \/ \E response \in Responses :
          IF ~responseOk(response)
            THEN svc' = [svc EXCEPT !.phase = "threw", !.response = response,
                                    !.message = httpError("Failed to generate design:", response)]
            ELSE svc' = [svc EXCEPT !.phase = "returned", !.response = response,
                                    !.result = response.blob]
  /\ UNCHANGED << appVars, server >>

\* getRandomTile() up to its await of fetch.
getRandomTileCall ==
  /\ svc.phase \in { "idle", "returned", "threw" }
  /\ svc' = [SvcIdle EXCEPT !.fn = "getRandomTile", !.phase = "fetch",
                            !.sent = << getRandomTileRequest >>]
  /\ UNCHANGED << appVars, server >>

\* fetch of getRandomTile settles.
getRandomTileSettle ==
  /\ svc.fn = "getRandomTile" /\ svc.phase = "fetch"
  /\ \/ svcThrew(<< "Failed to fetch" >>)
     \/ \E response \in Responses :
          IF ~responseOk(response)
            THEN svc' = [svc EXCEPT !.phase = "threw", !.response = response,
                                    !.message = httpError("Failed to get random tile:", response)]
            ELSE svc' = [svc EXCEPT !.phase = "blobToDataURL", !.response = response]
  /\ UNCHANGED << appVars, server >>

\* blobToDataURL of getRandomTile settles: reader.onload or reader.onerror.
getRandomTileConverted ==
  /\ svc.fn = "getRandomTile" /\ svc.phase = "blobToDataURL"
  /\ \/ svc' = [svc EXCEPT !.phase = "returned", !.result = blobToDataURL(svc.response.blob)]
     \/ svcThrew(<< "FileReader error" >>)
  /\ UNCHANGED << appVars, server >>

\* ------------------------------------------------------- POST /api/upload
\* The body of a request as req.formData() parses it: entries in order, each
\* a field name and a value that is a File (name, bytes) or a string.
ServerIdle == [ phase |-> "idle", request |-> Null, file |-> Null, response |-> Null ]

NoEntry == [kind |-> "null", name |-> "", bytes |-> << >>]
FormValues ==
  { [kind |-> "file",   name |-> "capture.jpg", bytes |-> << 255, 216, 255, 224 >>],
    [kind |-> "file",   name |-> "empty.png",   bytes |-> << >>],
    [kind |-> "string", name |-> "",            bytes |-> << 104, 105 >>] }
FormEntries ==
  { [name |-> "photo", value |-> v] : v \in FormValues } \cup
  { [name |-> "file",  value |-> v] : v \in { w \in FormValues : w.kind = "file" } }
Forms ==
  { << >> } \cup { << e >> : e \in FormEntries } \cup
  { << e, f >> : e \in FormEntries, f \in FormEntries }

\* A request: a multipart body with its entries, or a body req.formData()
\* cannot parse.
Requests ==
  { [multipart |-> TRUE, formData |-> fd] : fd \in Forms } \cup
  { [multipart |-> FALSE, formData |-> << >>] }

\* FormData.get(name): the first value of that name, or null.
RECURSIVE get(_, _)
get(formData, name) ==
  IF Len(formData) = 0 THEN NoEntry
  ELSE IF formData[1].name = name THEN formData[1].value
  ELSE get(Tail(formData), name)

\* Variant of instanceofFile: any value that is present passes.
instanceofFileOrString(value) == value # NoEntry

\* file instanceof File
instanceofFile(value) == value.kind = "file"

\* NextResponse.json(body, { status }), status 200 when not given.
json(body, status) == [status |-> status, body |-> body]

\* POST(req) up to `await req.formData()`.
POST ==
  /\ server.phase \in { "idle", "responded", "threw" }
  /\ \E req \in Requests :
       server' = [ServerIdle EXCEPT !.phase = "formData", !.request = req]
  /\ UNCHANGED << appVars, svc >>

\* req.formData() settles: it rejects (the handler throws), or the handler
\* goes on to the instanceof test and to `await file.arrayBuffer()`.
FormDataSettle ==
  /\ server.phase = "formData"
  /\ IF ~server.request.multipart THEN
       server' = [server EXCEPT !.phase = "threw"]
     ELSE LET file == get(server.request.formData, "photo")
          IN  IF ~instanceofFile(file)
                THEN server' = [server EXCEPT !.phase = "responded",
                       !.response = json([ok |-> FALSE, error |-> "No file received"], 400)]
                ELSE server' = [server EXCEPT !.phase = "arrayBuffer", !.file = file]
  /\ UNCHANGED << appVars, svc >>

\* file.arrayBuffer() resolves: Buffer.from(...) and the acknowledgement.
ArrayBufferSettle ==
  /\ server.phase = "arrayBuffer"
  /\ LET bytes == server.file.bytes
     IN  server' = [server EXCEPT !.phase = "responded",
           !.response = json([ok |-> TRUE, filename |-> server.file.name, size |-> Len(bytes)], 200)]
  /\ UNCHANGED << appVars, svc >>

\* ------------------------------------------------------------- ComparePage
OnCompare == route = "/compare"
ErrProcess   == << "Failed to process photo data" >>
ErrNoPhoto   == << "No original photo provided" >>
ErrGenerate  == << "Failed to generate designs" >>
ErrNewDesign == << "Failed to generate new design. Please try again." >>

\* Date.now() when a regeneration completes.  The wall clock can stand still
\* between two completions and can be set back.  The ids '1' and '2' of the
\* initial pair are the numbers 1 and 2.
Times == { 1000, 1001 }

\* What ComparePage renders inside <main>.
Rendered ==
  IF isLoading THEN "generating"
  ELSE IF designs # NoDesigns THEN "pair"
  ELSE IF compareError # NoCompareError THEN "errorAndRetry"
  ELSE "loadingText"

\* Variant of CompareReadEffect: the photo is read whatever the categories
\* parameter holds, without the `if (categories)` test.
CompareReadEffectAnyQuery ==
  /\ OnCompare /\ isMounted /\ readOutcome = "none"
  /\ \E storageOk \in BOOLEAN :
       IF storageOk /\ StartsWithDataImage(storage.designPhoto) THEN
         /\ originalPhoto' = storage.designPhoto
         /\ compareCategories' = split(searchParamsGet(query))
         /\ getThenRemoveItem("designPhoto")
         /\ effectPending' = TRUE
         /\ readOutcome' = "got"
         /\ UNCHANGED << nav, compareError >>
       ELSE
         /\ compareError' = ErrProcess
         /\ nav' = [to |-> "/", query |-> << >>]
         /\ readOutcome' = IF storageOk THEN "absent" ELSE "threw"
         /\ UNCHANGED << originalPhoto, compareCategories, storage, obtained, effectPending >>
  /\ lastEvent' = Ev("compareRead")
  /\ UNCHANGED << route, query, captureVars, previewVars, isMounted, isLoading,
                  loadingDesignIndex, designs, run, runIssued, regens >>
  /\ UNCHANGED serviceVars

\* The [isMounted, searchParams, router] effect of ComparePage, run with
\* isMounted = true.
CompareReadEffect ==
  /\ OnCompare /\ isMounted /\ readOutcome = "none"
  /\ LET categories == searchParamsGet(query)
         redirect == nav' = [to |-> "/", query |-> << >>]
         failed(outcome) == /\ compareError' = ErrProcess
                            /\ redirect
                            /\ readOutcome' = outcome
                            /\ UNCHANGED << originalPhoto, compareCategories, storage,
                                            effectPending >>
                            /\ IF outcome = "invalid" THEN getItem("designPhoto")
                                                      ELSE UNCHANGED obtained
     IN  IF Len(categories) = 0 THEN
           /\ redirect
           /\ readOutcome' = "noCategories"
           /\ UNCHANGED << originalPhoto, compareCategories, storage, obtained, compareError,
                           effectPending >>
         ELSE \E storageOk \in BOOLEAN :
           IF ~storageOk THEN failed("threw")
           ELSE IF storage.designPhoto = Null THEN failed("absent")
           ELSE IF ~StartsWithDataImage(storage.designPhoto) THEN failed("invalid")
           ELSE /\ originalPhoto' = storage.designPhoto
                /\ compareCategories' = split(categories)
                /\ getThenRemoveItem("designPhoto")
                /\ effectPending' = TRUE
                /\ readOutcome' = "got"
                /\ UNCHANGED << nav, compareError >>
  /\ lastEvent' = Ev("compareRead")
  /\ UNCHANGED << route, query, captureVars, previewVars, isMounted, isLoading,
                  loadingDesignIndex, designs, run, runIssued, regens >>
  /\ UNCHANGED serviceVars

\* Variant of generateInitialDesigns: one request, whose result is used twice.
generateInitialDesignsOnce(trigger) ==
  IF originalPhoto = Null THEN
    /\ compareError' = ErrNoPhoto
    /\ lastEvent' = EvRun("initNoPhoto", trigger)
    /\ UNCHANGED << isLoading, run, runIssued >>
  ELSE
    /\ isLoading' = TRUE
    /\ compareError' = NoCompareError
    /\ run' = [ trigger |-> trigger, phase |-> "gen", first |-> 0,
                reqs  |-> << generateDesignsRequest(originalPhoto, Null) >>,
                blobs |-> << Null, Null >>,
                urls  |-> << Null, Null >> ]
    /\ runIssued' = 1
    /\ lastEvent' = EvRun("initStarted", trigger)

\* generateInitialDesigns(), called by the [originalPhoto] effect or by the
\* Retry button (trigger): sets compareError, isLoading, run, runIssued.
\* reqs[k], blobs[k], urls[k] belong to the k-th element of the arrays given
\* to Promise.all; "first" remembers which request settled first.
generateInitialDesigns(trigger) ==
  IF originalPhoto = Null THEN
    /\ compareError' = ErrNoPhoto
    /\ lastEvent' = EvRun("initNoPhoto", trigger)
    /\ UNCHANGED << isLoading, run, runIssued >>
  ELSE IF ~dataURLtoFileOk(originalPhoto) THEN
    \* both generateDesigns calls throw before fetch: catch and finally
    /\ compareError' = dataURLtoFileError(originalPhoto)
    /\ isLoading' = FALSE
    /\ runIssued' = 0
    /\ lastEvent' = EvRun("initFailed", trigger)
    /\ UNCHANGED run
  ELSE
    /\ isLoading' = TRUE
    /\ compareError' = NoCompareError
    /\ run' = [ trigger |-> trigger, phase |-> "gen", first |-> 0,
                reqs  |-> << generateDesignsRequest(originalPhoto, Null),
                             generateDesignsRequest(originalPhoto, Null) >>,
                blobs |-> << Null, Null >>,
                urls  |-> << Null, Null >> ]
    /\ runIssued' = 2
    /\ lastEvent' = EvRun("initStarted", trigger)

\* The [originalPhoto] effect: runs after the render in which originalPhoto
\* became set.
GenerateEffect ==
  /\ OnCompare /\ effectPending
  /\ effectPending' = FALSE
  /\ generateInitialDesigns("effect")
  /\ UNCHANGED << navVars, captureVars, previewVars, pageVars, originalPhoto,
                  loadingDesignIndex, designs, compareCategories, regens >>
  /\ UNCHANGED serviceVars

\* Variant of RetryClick: the error is cleared and nothing is generated.
RetryClickClearsOnly ==
  /\ OnCompare /\ Rendered = "errorAndRetry"
  /\ compareError' = NoCompareError
  /\ lastEvent' = EvRun("errorCleared", "retry")
  /\ UNCHANGED << navVars, captureVars, previewVars, pageVars, originalPhoto, isLoading,
                  loadingDesignIndex, designs, compareCategories, effectPending, run,
                  runIssued, regens >>
  /\ UNCHANGED serviceVars

\* "Retry" button: setError(null); generateInitialDesigns().
RetryClick ==
  /\ OnCompare /\ Rendered = "errorAndRetry"
  /\ generateInitialDesigns("retry")
  /\ UNCHANGED << navVars, captureVars, previewVars, pageVars, originalPhoto,
                  loadingDesignIndex, designs, compareCategories, effectPending, regens >>
  /\ UNCHANGED serviceVars

\* Variant of initFailed: the catch block without the finally block.
initFailedKeepsLoading(message) ==
  /\ compareError' = message
  /\ run' = Null
  /\ lastEvent' = EvRun("initFailed", run.trigger)
  /\ UNCHANGED << isLoading, designs >>

\* The catch and finally blocks of generateInitialDesigns.
initFailed(message) ==
  /\ compareError' = message
  /\ isLoading' = FALSE
  /\ run' = Null
  /\ lastEvent' = EvRun("initFailed", run.trigger)
  /\ UNCHANGED designs

\* One of the two initial requests settles; k is its position in Promise.all.
InitRequestSettle(k) ==
  /\ OnCompare /\ run # Null /\ run.phase = "gen" /\ run.blobs[k] = Null
  /\ \E outcome \in Outcomes, b \in GenBlobs :
       IF outcome # "ok" THEN initFailed(generateDesignsError(outcome))
       ELSE LET blobs == [run.blobs EXCEPT ![k] = b]
            IN  /\ run' = [run EXCEPT !.blobs = blobs,
                                      !.first = IF run.first = 0 THEN k ELSE run.first,
                                      !.phase = IF \A j \in 1..2 : blobs[j] # Null
                                                  THEN "conv" ELSE "gen"]
                /\ lastEvent' = EvRun("initResolved", run.trigger)
                /\ UNCHANGED << compareError, isLoading, designs >>
  /\ UNCHANGED << navVars, captureVars, previewVars, pageVars, originalPhoto,
                  loadingDesignIndex, compareCategories, effectPending, runIssued, regens >>
  /\ UNCHANGED serviceVars

\* Variant of InitConvertSettle: the slots are filled in the order in which
\* the two requests settled.
InitConvertSettleByArrival(k) ==
  /\ OnCompare /\ run # Null /\ run.phase = "conv" /\ run.urls[k] = Null
  /\ \E readOk \in BOOLEAN :
       IF ~readOk THEN initFailed(ErrGenerate)
       ELSE LET urls == [run.urls EXCEPT ![k] = blobToDataURL(run.blobs[k])]
            IN  IF \A j \in 1..2 : urls[j] # Null
                  THEN /\ designs' = << [id |-> 1, imageUrl |-> urls[run.first]],
                                        [id |-> 2, imageUrl |-> urls[3 - run.first]] >>
                       /\ isLoading' = FALSE
                       /\ run' = Null
                       /\ lastEvent' = EvRunDone("initDone", run.trigger, run.first)
                       /\ UNCHANGED compareError
                  ELSE /\ run' = [run EXCEPT !.urls = urls]
                       /\ lastEvent' = EvRun("initConverted", run.trigger)
                       /\ UNCHANGED << compareError, isLoading, designs >>
  /\ UNCHANGED << navVars, captureVars, previewVars, pageVars, originalPhoto,
                  loadingDesignIndex, compareCategories, effectPending, runIssued, regens >>
  /\ UNCHANGED serviceVars

\* One of the two blobToDataURL conversions settles; setDesigns once both
\* have.
InitConvertSettle(k) ==
  /\ OnCompare /\ run # Null /\ run.phase = "conv" /\ run.urls[k] = Null
  /\ \E readOk \in BOOLEAN :
       IF ~readOk THEN initFailed(ErrGenerate)
       ELSE LET urls == [run.urls EXCEPT ![k] = blobToDataURL(run.blobs[k])]
            IN  IF \A j \in 1..2 : urls[j] # Null
                  THEN /\ designs' = << [id |-> 1, imageUrl |-> urls[1]],
                                        [id |-> 2, imageUrl |-> urls[2]] >>
                       /\ isLoading' = FALSE
                       /\ run' = Null
                       /\ lastEvent' = EvRunDone("initDone", run.trigger, run.first)
                       /\ UNCHANGED compareError
                  ELSE /\ run' = [run EXCEPT !.urls = urls]
                       /\ lastEvent' = EvRun("initConverted", run.trigger)
                       /\ UNCHANGED << compareError, isLoading, designs >>
  /\ UNCHANGED << navVars, captureVars, previewVars, pageVars, originalPhoto,
                  loadingDesignIndex, compareCategories, effectPending, runIssued, regens >>
  /\ UNCHANGED serviceVars

RemoveAt(s, i) == SubSeq(s, 1, i - 1) \o SubSeq(s, i + 1, Len(s))

\* handleDesignChoice(chosenDesign, otherDesign, chosenIndex): the button of
\* slot chosenIndex (0 or 1) exists when the pair is rendered and
\* loadingDesignIndex differs from chosenIndex.  designs[chosenIndex + 1] is
\* the slot's design; "chosen" remembers it as it was at the click.
handleDesignChoice(chosenIndex) ==
  /\ OnCompare /\ Rendered = "pair" /\ loadingDesignIndex # chosenIndex
  /\ Len(regens) < MaxRegen
  /\ originalPhoto # Null
  /\ LET otherIndex == IF chosenIndex = 0 THEN 1 ELSE 0
     IN  IF dataURLtoFileOk(originalPhoto)
           THEN /\ loadingDesignIndex' = otherIndex
                /\ regens' = Append(regens,
                     [ otherIndex |-> otherIndex, phase |-> "gen",
                       req |-> generateDesignsRequest(originalPhoto, Null),
                       blob |-> Null, chosen |-> designs[chosenIndex + 1] ])
                /\ lastEvent' = Ev("chosen")
                /\ UNCHANGED compareError
           ELSE \* generateDesigns throws before fetch: catch and finally
                /\ loadingDesignIndex' = -1
                /\ compareError' = ErrNewDesign
                /\ lastEvent' = Ev("regenFailed")
                /\ UNCHANGED regens
  /\ UNCHANGED << navVars, captureVars, previewVars, pageVars, originalPhoto, isLoading,
                  designs, compareCategories, effectPending, run, runIssued >>
  /\ UNCHANGED serviceVars

ChoiceClick == \E chosenIndex \in {0, 1} : handleDesignChoice(chosenIndex)

\* Variant of regenFailed: the slot that was being regenerated is blanked.
regenFailedBlanksSlot(i) ==
  /\ compareError' = ErrNewDesign
  /\ loadingDesignIndex' = -1
  /\ designs' = [designs EXCEPT ![regens[i].otherIndex + 1] = [id |-> 0, imageUrl |-> Null]]
  /\ regens' = RemoveAt(regens, i)
  /\ lastEvent' = Ev("regenFailed")

\* The catch and finally blocks of handleDesignChoice for the call regens[i].
regenFailed(i) ==
  /\ compareError' = ErrNewDesign
  /\ loadingDesignIndex' = -1
  /\ regens' = RemoveAt(regens, i)
  /\ lastEvent' = Ev("regenFailed")
  /\ UNCHANGED designs

\* The generation request of regens[i] settles.
RegenRequestSettle(i) ==
  /\ OnCompare /\ i \in 1..Len(regens) /\ regens[i].phase = "gen"
  /\ \E outcome \in Outcomes, b \in GenBlobs :
       IF outcome # "ok" THEN regenFailed(i)
       ELSE /\ regens' = [regens EXCEPT ![i].phase = "conv", ![i].blob = b]
            /\ lastEvent' = Ev("regenResolved")
            /\ UNCHANGED << compareError, loadingDesignIndex, designs >>
  /\ UNCHANGED << navVars, captureVars, previewVars, pageVars, originalPhoto, isLoading,
                  compareCategories, effectPending, run, runIssued >>
  /\ UNCHANGED serviceVars

\* Variant of replaceDesign: the new array is not a copy of the previous
\* pair, so the slot that was not regenerated is left without a design.
replaceDesignNoCopy(prevDesigns, otherIndex, id, newDesignUrl) ==
  IF prevDesigns = NoDesigns THEN NoDesigns
  ELSE [ k \in 1..2 |-> IF k = otherIndex + 1 THEN [id |-> id, imageUrl |-> newDesignUrl]
                                              ELSE [id |-> 0, imageUrl |-> Null] ]

\* The functional update handleDesignChoice passes to setDesigns.
replaceDesign(prevDesigns, otherIndex, id, newDesignUrl) ==
  IF prevDesigns = NoDesigns THEN NoDesigns
  ELSE [prevDesigns EXCEPT ![otherIndex + 1] = [id |-> id, imageUrl |-> newDesignUrl]]

\* regens is in the order in which the calls were started.  The slot of
\* regens[i] when a call for that slot started before regens[i] is still in
\* progress, else -1.
overtakes(i) ==
  IF \E j \in 1..(i - 1) : regens[j].otherIndex = regens[i].otherIndex
    THEN regens[i].otherIndex ELSE -1

\* regens[i] is the oldest call in progress for its slot and the step before
\* was a call started after it setting that slot.
late(i) ==
  /\ lastEvent.name = "regenerated" /\ lastEvent.overtook = regens[i].otherIndex
  /\ overtakes(i) = -1

\* Variant of RegenConvertSettle: a result is dropped when a call started
\* later has just set the slot.
RegenConvertSettleGuarded(i) ==
  /\ OnCompare /\ i \in 1..Len(regens) /\ regens[i].phase = "conv"
  /\ \E readOk \in BOOLEAN, now \in Times :
       IF ~readOk THEN regenFailed(i)
       ELSE /\ IF late(i)
                 THEN /\ UNCHANGED designs
                      /\ lastEvent' = Ev("regenDiscarded")
                 ELSE /\ designs' = replaceDesign(designs, regens[i].otherIndex, now,
                                                  blobToDataURL(regens[i].blob))
                      /\ lastEvent' = EvRegen("regenerated", overtakes(i), FALSE)
            /\ loadingDesignIndex' = -1
            /\ regens' = RemoveAt(regens, i)
            /\ UNCHANGED compareError
  /\ UNCHANGED << navVars, captureVars, previewVars, pageVars, originalPhoto, isLoading,
                  compareCategories, effectPending, run, runIssued >>
  /\ UNCHANGED serviceVars

\* blobToDataURL of regens[i] settles: setDesigns with a Date.now() id, finally.
RegenConvertSettle(i) ==
  /\ OnCompare /\ i \in 1..Len(regens) /\ regens[i].phase = "conv"
  /\ \E readOk \in BOOLEAN, now \in Times :
       IF ~readOk THEN regenFailed(i)
       ELSE /\ designs' = replaceDesign(designs, regens[i].otherIndex, now,
                                        blobToDataURL(regens[i].blob))
            /\ loadingDesignIndex' = -1
            /\ regens' = RemoveAt(regens, i)
            /\ lastEvent' = EvRegen("regenerated", overtakes(i), late(i))
            /\ UNCHANGED compareError
  /\ UNCHANGED << navVars, captureVars, previewVars, pageVars, originalPhoto, isLoading,
                  compareCategories, effectPending, run, runIssued >>
  /\ UNCHANGED serviceVars

\* --------------------------------------------------------------- browser
Routes == { "/", "/preview", "/compare" }

\* Query strings a /compare history entry can carry.
HistoryQueries == { << >>, encodeURIComponent(join(<< "decor", "floor" >>)) }

\* The browser's back/forward buttons and router.back() ("Back" in the header
\* of ComparePage): a client-side transition to another entry of the history.
HistoryTraverse ==
  \E to \in Routes \ {route}, q \in HistoryQueries :
    transition(to, IF to = "/compare" THEN q ELSE << >>)

\* ------------------------------------------------------------ specification
\* A fresh tab: empty sessionStorage, nothing requested, every component as
\* first rendered.
InitState ==
  /\ nav = NoNav /\ query = << >>
  /\ storage = [capturedPhoto |-> Null, designPhoto |-> Null]
  /\ obtained = [capturedPhoto |-> 0, designPhoto |-> 0]
  /\ stream = firstRenderStream /\ blob = Null /\ busy = FALSE /\ error = NoError
  /\ frozenFrame = Null /\ showToast = FALSE /\ toastTimers = 0
  /\ gumPending = 0 /\ playPending = 0 /\ gumOrphan = 0 /\ pickerOpen = FALSE
  /\ reads = << >> /\ acquired = 0 /\ live = {}
  /\ imageUrl = Null /\ selectedCategories = << >>
  /\ isMounted = FALSE /\ readOutcome = "none"
  /\ originalPhoto = Null /\ isLoading = FALSE /\ loadingDesignIndex = -1
  /\ designs = NoDesigns /\ compareCategories = << >> /\ compareError = NoCompareError
  /\ effectPending = FALSE /\ run = Null /\ runIssued = 0 /\ regens = << >>
  /\ lastEvent = Ev("init")
  /\ svc = SvcIdle /\ server = ServerIdle

\* The app opened at its entry route, in any browser.
Init ==
  /\ InitState
  /\ route = "/"
  /\ supportsGetUserMedia \in BOOLEAN /\ isSecure \in BOOLEAN

CaptureNext ==
  \/ StartCameraClick \/ GetUserMediaResolve \/ PlaySettled \/ GetUserMediaReject
  \/ OrphanGetUserMediaSettle \/ CaptureClick \/ handleRetry \/ UploadClick
  \/ PickerCancel \/ (\E file \in Files : onFileChange(file))
  \/ (\E i \in 1..MaxReads : ReaderOnload(i)) \/ ToastTimeout \/ HandleNextClick

PreviewNext ==
  \/ MountEffect \/ PreviewReadEffect \/ ToggleClick \/ GenerateClick \/ TakeNewPhoto

CompareNext ==
  \/ CompareReadEffect \/ GenerateEffect \/ RetryClick
  \/ (\E k \in 1..2 : InitRequestSettle(k)) \/ (\E k \in 1..2 : InitConvertSettle(k))
  \/ ChoiceClick
  \/ (\E i \in 1..MaxRegen : RegenRequestSettle(i))
  \/ (\E i \in 1..MaxRegen : RegenConvertSettle(i))

Next == CaptureNext \/ PreviewNext \/ CompareNext \/ CommitNav \/ HistoryTraverse

Spec == Init /\ [][Next]_vars

\* The capture screen on its own: the user works on "/", may leave it and
\* come back; what the other two screens do beyond reading the photo is not
\* part of this specification.
NextCapture ==
  \/ CaptureNext \/ CommitNav \/ HistoryTraverse
  \/ MountEffect \/ PreviewReadEffect \/ TakeNewPhoto

SpecCapture == Init /\ [][NextCapture]_vars

\* The transfer of the photo and of the categories from screen to screen, in
\* a browser without a camera API (the photo is an uploaded file), up to the
\* display of the initial pair.
InitFlow ==
  /\ InitState
  /\ route = "/"
  /\ supportsGetUserMedia = FALSE /\ isSecure \in BOOLEAN

NextFlow ==
  \/ StartCameraClick \/ handleRetry \/ UploadClick \/ PickerCancel
  \/ (\E file \in Files : onFileChange(file))
  \/ (\E i \in 1..MaxReads : ReaderOnload(i)) \/ ToastTimeout \/ HandleNextClick
  \/ PreviewNext
  \/ CompareReadEffect \/ GenerateEffect \/ RetryClick
  \/ (\E k \in 1..2 : InitRequestSettle(k)) \/ (\E k \in 1..2 : InitConvertSettle(k))
  \/ CommitNav \/ HistoryTraverse

SpecFlow == InitFlow /\ [][NextFlow]_vars

\* The compare screen on its own: it has just been rendered, after
\* PreviewPage stored a validated photo and pushed the route, or after the
\* URL was opened without a photo in the session.
ComparePhotos == { readAsDataURL(f) : f \in { g \in Files : ValidImageUrl(readAsDataURL(g)) } }

InitCompare ==
  /\ nav = NoNav
  /\ stream = firstRenderStream /\ blob = Null /\ busy = FALSE /\ error = NoError
  /\ frozenFrame = Null /\ showToast = FALSE /\ toastTimers = 0
  /\ gumPending = 0 /\ playPending = 0 /\ gumOrphan = 0 /\ pickerOpen = FALSE
  /\ reads = << >> /\ acquired = 0 /\ live = {}
  /\ imageUrl = Null /\ selectedCategories = << >>
  /\ isMounted = FALSE /\ readOutcome = "none"
  /\ originalPhoto = Null /\ isLoading = FALSE /\ loadingDesignIndex = -1
  /\ designs = NoDesigns /\ compareCategories = << >> /\ compareError = NoCompareError
  /\ effectPending = FALSE /\ run = Null /\ runIssued = 0 /\ regens = << >>
  /\ lastEvent = Ev("init")
  /\ svc = SvcIdle /\ server = ServerIdle
  /\ route = "/compare"
  /\ query \in HistoryQueries
  /\ \E photo \in ComparePhotos \cup {Null} :
       storage = [capturedPhoto |-> Null, designPhoto |-> photo]
  /\ obtained = [capturedPhoto |-> 0, designPhoto |-> 0]
  /\ supportsGetUserMedia = TRUE /\ isSecure = TRUE

NextCompare == CompareNext \/ MountEffect \/ CommitNav \/ HistoryTraverse

SpecCompare == InitCompare /\ [][NextCompare]_vars

\* The compare screen when every request sent to the generation service and
\* every FileReader conversion eventually settles (resolves or rejects).
FairCompare ==
  /\ \A k \in 1..2 : WF_vars(InitRequestSettle(k)) /\ WF_vars(InitConvertSettle(k))
  /\ \A i \in 1..MaxRegen : WF_vars(RegenRequestSettle(i)) /\ WF_vars(RegenConvertSettle(i))

SpecCompareLive == InitCompare /\ [][NextCompare]_vars /\ FairCompare

\* The preview screen on its own: it has just been rendered, after
\* CameraCapture stored its frozen frame (here the data URL of any picked
\* file) and pushed the route, or after the URL was opened with
\* whatever the tab's session holds under the key: nothing, or a string put
\* there by another writer (a data URL that is not base64 encoded, one whose
\* payload is not base64 text).  The compare screen is followed up to its
\* read of the transferred photo and categories.
ForeignPhotos == { DataURL("image/jpeg", FALSE, Bytes(640, 480, "text")),
                   DataURL("image/png", TRUE, NotBase64) }
PreviewPhotos == { readAsDataURL(f) : f \in Files } \cup ForeignPhotos

InitPreview ==
  /\ nav = NoNav /\ query = << >>
  /\ stream = firstRenderStream /\ blob = Null /\ busy = FALSE /\ error = NoError
  /\ frozenFrame = Null /\ showToast = FALSE /\ toastTimers = 0
  /\ gumPending = 0 /\ playPending = 0 /\ gumOrphan = 0 /\ pickerOpen = FALSE
  /\ reads = << >> /\ acquired = 0 /\ live = {}
  /\ imageUrl = Null /\ selectedCategories = << >>
  /\ isMounted = FALSE /\ readOutcome = "none"
  /\ originalPhoto = Null /\ isLoading = FALSE /\ loadingDesignIndex = -1
  /\ designs = NoDesigns /\ compareCategories = << >> /\ compareError = NoCompareError
  /\ effectPending = FALSE /\ run = Null /\ runIssued = 0 /\ regens = << >>
  /\ lastEvent = Ev("init")
  /\ svc = SvcIdle /\ server = ServerIdle
  /\ route = "/preview"
  /\ \E photo \in PreviewPhotos \cup {Null} :
       storage = [capturedPhoto |-> photo, designPhoto |-> Null]
  /\ obtained = [capturedPhoto |-> 0, designPhoto |-> 0]
  /\ supportsGetUserMedia = TRUE /\ isSecure = TRUE

NextPreview == PreviewNext \/ CommitNav \/ CompareReadEffect

SpecPreview == InitPreview /\ [][NextPreview]_vars

\* The service module and the upload route on their own: callers pass any
\* arguments, the generation service answers anything, clients post anything.
InitService ==
  /\ InitState
  /\ route = "/"
  /\ supportsGetUserMedia = TRUE /\ isSecure = TRUE

NextService ==
  \/ generateDesignsCall \/ generateDesignsSettle
  \/ getRandomTileCall \/ getRandomTileSettle \/ getRandomTileConverted
  \/ POST \/ FormDataSettle \/ ArrayBufferSettle

SpecService == InitService /\ [][NextService]_vars

\* ================================================================ properties
Frozen == lastEvent.name \in { "captured", "uploaded" }

\* C1: after a successful capture or upload (the frozen frame has just been
\* set) the controller holds no stream and every track of every stream
\* granted so far is stopped.
C1_FrozenReleasesCamera ==
  (OnCapture /\ Frozen) => (frozenFrame # Null /\ stream = 0 /\ live = {})

\* C2: a run of the initial generation sends exactly two requests for the
\* source photo; while it is in progress no pair exists and nothing of it is
\* rendered; the pair appears in one step, made of the two converted results;
\* after a failed run there is no pair, the error is set and Retry is shown.
C2_RunState ==
  /\ run # Null =>
       /\ runIssued = 2 /\ Len(run.reqs) = 2
       /\ \A k \in 1..2 : run.reqs[k] = generateDesignsRequest(originalPhoto, Null)
       /\ designs = NoDesigns /\ Rendered = "generating"
  /\ lastEvent.name = "initFailed" =>
       /\ designs = NoDesigns
       /\ compareError # NoCompareError
       /\ Rendered = "errorAndRetry"
C2_PairAppears ==
  (designs = NoDesigns /\ designs' # NoDesigns) =>
     /\ run # Null /\ run.phase = "conv"
     /\ \A k \in 1..2 : /\ run.blobs[k] # Null
                        /\ designs'[k].imageUrl = blobToDataURL(run.blobs[k])
     /\ \E k \in 1..2 : run.urls[k] # Null
C2_InitialGeneration == [](C2_RunState) /\ [][C2_PairAppears]_vars
C2_Witness == OnCompare /\ lastEvent.name = "initDone" /\ designs # NoDesigns /\ runIssued = 2

\* C3: when the request issued by choosing slot i succeeds, slot 1-i holds the
\* new identifier and image and slot i is the design it was at the moment of
\* the choice.
C3_Completion(i) ==
  (/\ i \in 1..Len(regens) /\ regens[i].phase = "conv"
   /\ lastEvent'.name = "regenerated" /\ regens' = RemoveAt(regens, i)) =>
     LET otherIndex  == regens[i].otherIndex
         chosenIndex == 1 - otherIndex
     IN  /\ designs'[chosenIndex + 1] = regens[i].chosen
         /\ designs'[otherIndex + 1].imageUrl = blobToDataURL(regens[i].blob)
C3_ChosenSlotKept == [][\A i \in 1..MaxRegen : C3_Completion(i)]_vars

\* C4: the read of a stored session key returns the stored value and removes
\* the key; a value is never returned by two reads, and once it was read the
\* key is absent.
C4_Keys == { "capturedPhoto", "designPhoto" }
C4_AtMostOnce ==
  \A key \in C4_Keys : /\ obtained[key] <= 1
                       /\ obtained[key] = 1 => storage[key] = Null
C4_ReadTakes ==
  /\ (OnPreview /\ readOutcome = "none" /\ readOutcome' = "got") =>
       /\ storage.capturedPhoto # Null
       /\ imageUrl' = storage.capturedPhoto
       /\ storage'.capturedPhoto = Null
  /\ (OnCompare /\ readOutcome = "none" /\ readOutcome' = "got") =>
       /\ storage.designPhoto # Null
       /\ originalPhoto' = storage.designPhoto
       /\ storage'.designPhoto = Null
  /\ (readOutcome = "none" /\ readOutcome' = "absent") =>
       storage[IF OnPreview THEN "capturedPhoto" ELSE "designPhoto"] = Null
C4_TakeOnce == [](C4_AtMostOnce) /\ [][C4_ReadTakes]_vars
C4_Witness ==
  /\ OnCompare /\ readOutcome = "absent"
  /\ obtained.designPhoto = 1 /\ obtained.capturedPhoto = 1

\* C5: the image that becomes the frozen frame, from a live frame or from an
\* uploaded file of size w x h, has its longer side at most 1920 and keeps
\* the ratio w:h up to the rounding of one pixel.
C5_FrozenWithinBound ==
  (OnCapture /\ Frozen /\ lastEvent.w > 0 /\ lastEvent.h > 0) =>
     LET out == frozenFrame.payload
         diff == out.w * lastEvent.h - out.h * lastEvent.w
     IN  /\ Max(out.w, out.h) <= 1920
         /\ diff < Max(lastEvent.w, lastEvent.h)
         /\ 0 - diff < Max(lastEvent.w, lastEvent.h)

\* C6: when the capture component is unmounted while its state holds a
\* stream, the cleanup stops the tracks of that stream.
C6_UnmountStopsStream ==
  [][(OnCapture /\ route' # "/" /\ stream # 0) => stream \notin live']_vars

\* C7: a screen whose session read found the key absent, or whose storage
\* access threw, is redirecting to "/", shows no image and has started no
\* generation.
C7_NoData == readOutcome \in { "absent", "threw" }
C7_AbsentRedirects ==
  /\ (OnPreview /\ C7_NoData) => (imageUrl = Null /\ nav.to = "/")
  /\ (OnCompare /\ C7_NoData) =>
       /\ originalPhoto = Null /\ nav.to = "/"
       /\ run = Null /\ runIssued = 0 /\ regens = << >>
       /\ ~isLoading /\ designs = NoDesigns
C7_Witness == OnCompare /\ readOutcome = "absent" /\ lastEvent.name = "initNoPhoto"

\* C8: every failure of the start-camera action (no camera API, insecure
\* origin, acquisition rejected) sets the error message and opens the file
\* picker.
C8_StartFailures == { "startUnsupported", "startInsecure", "gumRejected" }
C8_FailureFallsBack ==
  (OnCapture /\ lastEvent.name \in C8_StartFailures) => (error # NoError /\ pickerOpen)

\* C9: a failed single-slot regeneration leaves both design slots exactly as
\* they were before the failure was delivered.
C9_FailureKeepsPair ==
  [][(lastEvent'.name = "regenFailed" /\ OnCompare /\ route' = route) =>
       (designs # NoDesigns /\ designs' = designs)]_vars
C9_Witness == OnCompare /\ lastEvent.name = "regenFailed" /\ designs # NoDesigns

\* C10: after a failed single-slot regeneration the rendered output contains
\* the error message while both design slots are still shown.
C10_ErrorRendered == Rendered = "errorAndRetry"
C10_SlotsRendered == Rendered = "pair"
C10_InlineError ==
  (OnCompare /\ lastEvent.name = "regenFailed") =>
     (compareError # NoCompareError /\ C10_ErrorRendered /\ C10_SlotsRendered)

\* C11: at most one slot is being regenerated: all the handleDesignChoice
\* calls in flight target the same slot, never slot 0 and slot 1 at once.
C11_Targets == { regens[i].otherIndex : i \in 1..Len(regens) }
C11_OneSlotRegenerating == OnCompare => Cardinality(C11_Targets) <= 1

\* C12: on the preview screen the "Generate Design" button exists exactly
\* when at least one category is selected, and handleGenerateDesign runs only
\* from a state in which the selection is non-empty.
C12_Generated == { "generateStored", "generateAborted" }
C12_ButtonIffSelected == OnPreview => (GenerateButton <=> Len(selectedCategories) > 0)
C12_InvokedWhenSelected ==
  (OnPreview /\ lastEvent'.name \in C12_Generated) =>
     (GenerateButton /\ Len(selectedCategories) > 0)
C12_GenerateIffSelected == [](C12_ButtonIffSelected) /\ [][C12_InvokedWhenSelected]_vars
C12_Witness ==
  /\ OnPreview /\ lastEvent.name = "toggled" /\ imageUrl # Null
  /\ Len(selectedCategories) = 2 /\ GenerateButton

\* C13: the compare screen never holds a source photo together with an empty
\* category selection: whenever it has obtained the photo, and so whenever a
\* generation (initial or single-slot) has been started, the list it received
\* is non-empty and made of category ids.
C13_Generating == run # Null \/ runIssued > 0 \/ regens # << >> \/ designs # NoDesigns
C13_Received ==
  /\ Len(compareCategories) > 0
  /\ \A i \in 1..Len(compareCategories) :
       \E c \in CategoryIds : compareCategories[i] = chars(c)
C13_CategoriesNonEmpty ==
  OnCompare => /\ C13_Generating => originalPhoto # Null
               /\ originalPhoto # Null => C13_Received
C13_Witness ==
  /\ OnCompare /\ originalPhoto # Null /\ run # Null /\ runIssued = 2
  /\ Len(compareCategories) = 3

\* C14: the selection holds no id twice and only ids of the fixed list; a
\* toggle of c adds c when absent and removes it when present, changing no
\* other member; toggling c twice in a row gives the same set again.
C14_Members(sel) == { sel[i] : i \in 1..Len(sel) }
C14_IsSet(sel) ==
  /\ \A i, j \in 1..Len(sel) : sel[i] = sel[j] => i = j
  /\ C14_Members(sel) \subseteq { "floor", "walls", "furniture", "lighting", "decor" }
C14_Flips(sel, c) ==
  LET S == C14_Members(sel)
      T == C14_Members(newSet(sel, c))
  IN  /\ C14_IsSet(newSet(sel, c))
      /\ c \in S => T = S \ {c}
      /\ c \notin S => T = S \cup {c}
      /\ C14_Members(newSet(newSet(sel, c), c)) = S
      /\ C14_IsSet(newSet(newSet(sel, c), c))
C14_Selection ==
  /\ C14_IsSet(selectedCategories)
  /\ (lastEvent.name = "toggled" \/ selectedCategories = << >>) =>
       \A c \in CategoryIds : C14_Flips(selectedCategories, c)
C14_ToggleStep ==
  (OnPreview /\ lastEvent'.name = "toggled") =>
     \E c \in CategoryIds : selectedCategories' = newSet(selectedCategories, c)
C14_ToggleFlips == [](C14_Selection) /\ [][C14_ToggleStep]_vars
C14_Witness ==
  /\ OnPreview /\ lastEvent.name = "toggled" /\ imageUrl # Null
  /\ selectedCategories = << >>

\* C15: when the image of the preview screen fails validation (no image
\* prefix, no ";base64" header, no payload, or a payload that does not decode)
\* a run of handleGenerateDesign writes no session key and requests no
\* navigation: storage, route and pending navigation are as before.
C15_FailsValidation(u) ==
  \/ u.mime \notin { "image/jpeg", "image/png" }
  \/ ~u.b64
  \/ u.payload = EmptyBytes
  \/ ~atobOk(u.payload)
C15_InvalidAborts ==
  [][(/\ OnPreview /\ imageUrl # Null /\ C15_FailsValidation(imageUrl)
      /\ lastEvent'.name \in { "generateStored", "generateAborted" }) =>
       (/\ lastEvent'.name = "generateAborted"
        /\ storage' = storage /\ storage'.designPhoto = Null
        /\ route' = route /\ query' = query /\ nav' = nav)]_vars
C15_Witness ==
  /\ OnPreview /\ lastEvent.name = "generateAborted"
  /\ imageUrl # Null /\ C15_FailsValidation(imageUrl) /\ imageUrl.payload = NotBase64
  /\ storage.designPhoto = Null /\ nav = NoNav

\* C16: a call of generateDesigns whose images decode passes exactly one
\* request to fetch, a POST: with a tile, to "generate" with two files under
\* the field "files", the source photo first and the tile second; without a
\* tile, to "generate-random" with the source photo as its only file.  No call
\* sends more than one request.
C16_Decodes(u) == u.b64 /\ u.payload # EmptyBytes /\ u.payload # NotBase64
C16_IsFileOf(entry, u) == entry.name = "files" /\ entry.value.bytes = u.payload
C17_Failed == svc.response # Null /\ (svc.response.status < 200 \/ svc.response.status > 299)
C17_NonSuccessThrows ==
  (svc.fn \in { "generateDesigns", "getRandomTile" } /\ C17_Failed) =>
    /\ svc.phase = "threw"
    /\ svc.result = Null
    /\ Len(svc.message) = 3
    /\ svc.message[2] = svc.response.status
    /\ svc.message[3] = svc.response.text
C17_Witness ==
  /\ svc.fn = "getRandomTile" /\ svc.phase = "threw"
  /\ svc.response # Null /\ svc.response.status = 500
  /\ svc.message = << "Failed to get random tile:", 500, "model unavailable" >>

\* C19: for a multipart request POST /api/upload answers, and only answers,
\* { ok: true, filename, size } with the name and the byte length of the file
\* when the first "photo" field is a file, and status 400 with
\* { ok: false, error } when that field is missing or is a string.
C19_PhotoIndexes(fd) == { i \in 1..Len(fd) : fd[i].name = "photo" }
C19_HasFile(fd) ==
  /\ C19_PhotoIndexes(fd) # {}
  /\ LET first == CHOOSE i \in C19_PhotoIndexes(fd) : \A j \in C19_PhotoIndexes(fd) : i <= j
     IN  fd[first].value.kind = "file"
C19_Photo(fd) ==
  fd[CHOOSE i \in C19_PhotoIndexes(fd) : \A j \in C19_PhotoIndexes(fd) : i <= j].value
C18_Failed ==
  /\ OnCompare /\ originalPhoto # Null /\ designs = NoDesigns
  /\ compareError # NoCompareError /\ ~isLoading /\ run = Null
C18_RetryShown == C18_Failed => Rendered = "errorAndRetry"
C18_RetryStarts ==
  (C18_Failed /\ route' = route /\ compareVars' # compareVars) =>
     /\ lastEvent'.trigger = "retry"
     /\ compareError' = NoCompareError
     /\ run' # Null /\ run'.phase = "gen" /\ runIssued' = 2 /\ Len(run'.reqs) = 2
     /\ \A k \in 1..2 : /\ run'.reqs[k] = generateDesignsRequest(originalPhoto, Null)
                        /\ run'.blobs[k] = Null /\ run'.urls[k] = Null
C18_RetryDone ==
  (lastEvent.name = "initDone" /\ lastEvent.trigger = "retry") =>
     /\ Rendered = "pair" /\ Len(designs) = 2
     /\ \A k \in 1..2 : designs[k].imageUrl # Null /\ ValidImageUrl(designs[k].imageUrl)
     /\ compareError = NoCompareError
C18_RetryReruns == [](C18_RetryShown /\ C18_RetryDone) /\ [][C18_RetryStarts]_vars
C18_Witness ==
  /\ OnCompare /\ lastEvent.name = "initDone" /\ lastEvent.trigger = "retry"
  /\ Rendered = "pair" /\ runIssued = 2

\* C20: the categories parameter PreviewPage builds from a non-empty
\* selection, in whatever order the set iterates, parses on ComparePage into
\* exactly the ids of the selection: the same ids, each once, none added.
C20_Ids(sel) == [i \in 1..Len(sel) |-> chars(sel[i])]
C20_Parse(q) == split(searchParamsGet(q))
C20_SelectionRoundTrips ==
  (OnPreview /\ lastEvent.name = "toggled" /\ Len(selectedCategories) > 0) =>
     C20_Parse(encodeURIComponent(join(selectedCategories))) = C20_Ids(selectedCategories)
C20_Received ==
  (OnCompare /\ originalPhoto # Null) =>
     /\ \A i, j \in 1..Len(compareCategories) :
          compareCategories[i] = compareCategories[j] => i = j
     /\ \A i \in 1..Len(compareCategories) :
          \E c \in { "floor", "walls", "furniture", "lighting", "decor" } :
            compareCategories[i] = chars(c)
C20_Steps ==
  /\ (OnPreview /\ lastEvent'.name = "generateStored") =>
       C20_Parse(nav'.query) = C20_Ids(selectedCategories)
  /\ (OnCompare /\ readOutcome = "none" /\ readOutcome' = "got") =>
       compareCategories' = C20_Parse(query)
C20_QueryRoundTrip == [](C20_SelectionRoundTrips /\ C20_Received) /\ [][C20_Steps]_vars
C20_Witness ==
  /\ OnCompare /\ readOutcome = "got" /\ Len(compareCategories) = 5
  /\ compareCategories[1] = chars("decor") /\ compareCategories[5] = chars("floor")

\* C21: on the capture screen a frozen frame stays set, with the same image,
\* through every step other than Retry: no completion of a start-camera
\* request, file read or timer clears or replaces it.
C21_RetrySteps == { "startUnsupported", "startInsecure", "startRequested" }
C21_FrozenStep ==
  (OnCapture /\ route' = route /\ frozenFrame # Null /\ lastEvent'.name \notin C21_RetrySteps) =>
     frozenFrame' = frozenFrame
C21_FrozenUntilRetry == [][C21_FrozenStep]_vars

\* C22: the camera stream is exclusive: starting from a state of the capture
\* screen in which the only stream with unstopped tracks is the one held in
\* state, no step of the screen's handlers (start, retry, capture, upload and
\* their completions) leaves a second stream live or a live stream that the
\* state no longer holds.
C22_Exclusive == Cardinality(live) <= 1 /\ live \subseteq { stream }
C22_Step ==
  (OnCapture /\ route' = route /\ gumOrphan = 0 /\ C22_Exclusive) => C22_Exclusive'
C22_ExclusiveStream == [][C22_Step]_vars

\* C23: no staleness guard: every handleDesignChoice call whose request and
\* conversion succeed puts its result into its slot, also when a call started
\* after it has already put a newer result there; the late result of the
\* earlier request then replaces the newer one.
C23_Commits(i) ==
  (/\ OnCompare /\ route' = route
   /\ i \in 1..Len(regens) /\ regens[i].phase = "conv"
   /\ regens' = RemoveAt(regens, i)
   /\ lastEvent'.name # "regenFailed") =>
     /\ designs'[regens[i].otherIndex + 1].imageUrl = blobToDataURL(regens[i].blob)
     /\ lastEvent'.name = "regenerated"
C23_NewerThenOlder ==
  (OnCompare /\ lastEvent'.name = "regenerated" /\ lastEvent'.late) =>
     /\ lastEvent.name = "regenerated" /\ lastEvent.overtook # -1
     /\ \E i \in 1..Len(regens) :
          /\ regens[i].otherIndex = lastEvent.overtook
          /\ \A j \in 1..(i - 1) : regens[j].otherIndex # regens[i].otherIndex
          /\ regens' = RemoveAt(regens, i)
          /\ designs'[regens[i].otherIndex + 1].imageUrl = blobToDataURL(regens[i].blob)
C23_LateResultCommitted ==
  [][(\A i \in 1..MaxRegen : C23_Commits(i)) /\ C23_NewerThenOlder]_vars
C23_Witness ==
  /\ OnCompare /\ lastEvent.name = "regenerated" /\ lastEvent.late
  /\ designs[1].id = 1 /\ designs[2].imageUrl.payload.tag = "A" /\ regens = << >>

\* C24: the initial pair is positional: a result, once received, stays at the
\* position of its request; when the pair appears slot 0 holds the result of
\* the first request of Promise.all and slot 1 the result of the second, with
\* the ids 1 and 2, whichever of the two requests settled first.
C24_ResultsStay ==
  (run # Null /\ run' # Null) =>
     \A k \in 1..2 : /\ run'.reqs[k] = run.reqs[k]
                     /\ run.blobs[k] # Null => run'.blobs[k] = run.blobs[k]
C24_PairByPosition ==
  (OnCompare /\ designs = NoDesigns /\ designs' # NoDesigns) =>
     /\ run # Null
     /\ \A k \in 1..2 : /\ designs'[k].imageUrl = blobToDataURL(run.blobs[k])
                        /\ designs'[k].id = k
     /\ lastEvent'.first = run.first /\ run.first \in 1..2
C24_PositionalSlots == [][C24_ResultsStay /\ C24_PairByPosition]_vars
C24_Witness ==
  /\ OnCompare /\ lastEvent.name = "initDone" /\ lastEvent.first = 2
  /\ designs[1].id = 1 /\ designs[2].id = 2
  /\ designs[1].imageUrl.payload.tag = "A" /\ designs[2].imageUrl.payload.tag = "B"

\* C25: the two displayed slots never share an identifier: a regeneration
\* stores its design under an id that differs from the id it replaces and from
\* the id of the other slot, whatever the clock reads at completion.
C25_DistinctIds ==
  (OnCompare /\ designs # NoDesigns) => designs[1].id # designs[2].id

\* C26: while a handleDesignChoice call for slot j is in progress, slot j is
\* marked as regenerating (loadingDesignIndex = j), so it shows no button.
C26_InFlightMarked ==
  OnCompare => \A i \in 1..Len(regens) : loadingDesignIndex = regens[i].otherIndex

\* C27: the pair is either absent or made of two designs that each have an
\* image; while the compare screen stays mounted a pair that exists never
\* becomes absent, whatever completes or fails afterwards.
C27_Complete(d) ==
  /\ Len(d) = 2
  /\ \A k \in 1..2 : d[k].imageUrl # Null
C27_AbsentOrComplete == designs = NoDesigns \/ C27_Complete(designs)
C27_PairStays ==
  (OnCompare /\ route' = route /\ designs # NoDesigns) => C27_Complete(designs')
C27_PairNeverPartial == [](C27_AbsentOrComplete) /\ [][C27_PairStays]_vars
C27_Witness ==
  /\ OnCompare /\ lastEvent.name = "regenFailed" /\ regens # << >>
  /\ C27_Complete(designs) /\ designs[2].id = 1000

\* C28: on the capture screen a run of handleNext needs a frozen frame and
\* keeps it; when setItem succeeds the frame is stored under capturedPhoto and
\* the preview route is pushed; when setItem throws nothing is stored, no
\* navigation is requested and the error is set; a navigation to the preview
\* screen is pending only while the photo is in the session.
C28_NextRan == { "nextStored", "nextFailed" }
C28_NextStep ==
  (OnCapture /\ lastEvent'.name \in C28_NextRan) =>
     /\ frozenFrame # Null /\ frozenFrame' = frozenFrame /\ route' = route
     /\ IF lastEvent'.name = "nextStored"
          THEN /\ storage'.capturedPhoto = frozenFrame
               /\ nav' = [to |-> "/preview", query |-> << >>]
               /\ error' = error
          ELSE /\ storage' = storage /\ nav' = nav
               /\ error' = ErrSave
C28_PushStep ==
  (OnCapture /\ route' = route /\ nav' # nav) =>
     (lastEvent'.name = "nextStored" /\ nav'.to = "/preview")
C28_PendingHasPhoto ==
  (OnCapture /\ nav.to = "/preview") => storage.capturedPhoto # Null
C28_NextStoresThenNavigates == [](C28_PendingHasPhoto) /\ [][C28_NextStep /\ C28_PushStep]_vars
C28_Witness ==
  /\ OnCapture /\ lastEvent.name = "nextFailed" /\ error = ErrSave
  /\ frozenFrame # Null /\ nav = NoNav /\ storage.capturedPhoto = Null

\* C29: when every request eventually settles, a compare screen that shows
\* the whole-pair loading state eventually stops showing it, with the pair or
\* an error (or because the screen was left), and a slot marked as
\* regenerating eventually is not marked, whether its request succeeded or
\* failed.
C29_Left == lastEvent.name \in { "navigated", "captureUnmounted" }
C29_PairLoadingClears ==
  (OnCompare /\ isLoading) ~>
     (~isLoading /\ (designs # NoDesigns \/ compareError # NoCompareError \/ C29_Left))
C29_MarkClears ==
  (OnCompare /\ loadingDesignIndex # -1) ~> (loadingDesignIndex = -1)
C29_LoadingClears == C29_PairLoadingClears /\ C29_MarkClears
C29_Witness ==
  /\ OnCompare /\ lastEvent.name = "initFailed" /\ lastEvent.trigger = "retry"
  /\ ~isLoading /\ run = Null /\ designs = NoDesigns /\ compareError # NoCompareError

====
